---- MODULE Spec2Model ----
(***************************************************************************)
(* Model of src/recommendation_service.py: the Recommendations store       *)
(* (load / get and its two usage counters), dedup_ids, and the three       *)
(* request handlers recommendations_offline, recommendations_online and    *)
(* recommendations.                                                        *)
(*                                                                         *)
(* Scheduling.  The three handlers are `async def` endpoints, so they run  *)
(* on the one event-loop thread of the process that owns rec_store.        *)
(* Recommendations.get is a plain function, requests.post is a blocking    *)
(* call, and the only `await`s (lines 150-151) await coroutines that never *)
(* suspend.  A handler therefore runs from its first statement to its      *)
(* return without another handler running in between: requests are served  *)
(* in an arbitrary order, one at a time.  The model has one task slot      *)
(* (pc, req and the handler's locals); the order of the requests, their    *)
(* arguments and every external response are nondeterministic.             *)
(*                                                                         *)
(* Nothing in a handler or in get waits for lifespan: they are module-level*)
(* callables on the module-level rec_store, which exists, with both tables *)
(* None, from import on (an ASGI client that does not run the lifespan     *)
(* events, or a caller of rec_store.get, meets it in that state, and a     *)
(* failed second load leaves it half loaded).  Requests are therefore      *)
(* enabled in every state of the store.                                    *)
(***************************************************************************)
EXTENDS Integers, Sequences, FiniteSets, TLC

\* ---------------------------------------------------------------- universes
\* ItemId and UserId are opaque integers; scores are floats, of which only the
\* order and equality matter to the code.
Items  == {1, 2, 3}
Users  == {1, 2, 3}
Scores == {1, 2}
\* The items a user interacted with lately (the seed items); what the features
\* store answers for a seed does not depend on which item it is.
RecentItems == {1, 2}
\* Requested list lengths: negative, zero, truncating and non-truncating.
Ks     == {-1, 0, 1, 2, 3}

\* The events store is asked for the last three events (line 118).
EventsWindow == 3
\* (item, score) pairs the similar_items responses of one request hold in total.
MaxCandidates == 2
\* Offline lookups counted in one behaviour (caps the two usage counters).
MaxHits == 2
\* Longest input of the dedup_ids specification.
MaxLen == 4

None == "None"

SeqsUpTo(S, n) == UNION {[1..m -> S] : m \in 0..n}

\* ---------------------------------------------------------------- Python
Min(a, b) == IF a <= b THEN a ELSE b

\* s[:k] of a Python list: the first k elements for k >= 0, all but the last
\* -k elements for k < 0.
SliceTo(s, k) ==
  LET stop == IF k >= 0 THEN Min(k, Len(s))
              ELSE IF Len(s) + k >= 0 THEN Len(s) + k ELSE 0
  IN  SubSeq(s, 1, stop)

\* s[n:] for 0 <= n.
SliceFrom(s, n) == SubSeq(s, n + 1, Len(s))

RECURSIVE Reversed(_)
Reversed(s) == IF s = <<>> THEN <<>> ELSE Append(Reversed(Tail(s)), Head(s))

\* zip(items, scores): pairs up to the shorter list.
Zip(a, b) == [i \in 1..Min(Len(a), Len(b)) |-> <<a[i], b[i]>>]

\* One step of a stable ascending sort on the score: x goes after every element
\* whose score is <= its own.
RECURSIVE InsertAsc(_, _)
InsertAsc(sorted, x) ==
  IF sorted = <<>> THEN <<x>>
  ELSE IF Head(sorted)[2] <= x[2]
       THEN <<Head(sorted)>> \o InsertAsc(Tail(sorted), x)
       ELSE <<x>> \o sorted

RECURSIVE StableAsc(_)
StableAsc(s) ==
  IF s = <<>> THEN <<>>
  ELSE InsertAsc(StableAsc(SubSeq(s, 1, Len(s) - 1)), s[Len(s)])

\* Fault: ascending sort followed by a reversal, which turns ties around.
SortedAscThenReversed(pairs) == Reversed(StableAsc(pairs))

\* sorted(combined, key=lambda x: x[1], reverse=True).  list.sort is stable; with
\* reverse=True it reverses the list, sorts it ascending and reverses the result,
\* which keeps equal keys in their original order.
SortedByScoreDesc(pairs) == Reversed(StableAsc(Reversed(pairs)))

\* ---------------------------------------------------------------- dedup_ids
RECURSIVE dedup_loop(_, _, _)
dedup_loop(ids, seen, out) ==
  IF ids = <<>> THEN out
  ELSE LET id == Head(ids)
       IN  IF id \in seen
           THEN dedup_loop(Tail(ids), seen, out)
           ELSE dedup_loop(Tail(ids), seen \cup {id}, Append(out, id))

\* Fault: the last occurrence of each id is kept instead of the first.
dedup_ids_keep_last(ids) == Reversed(dedup_loop(Reversed(ids), {}, <<>>))

dedup_ids(ids) == dedup_loop(ids, {}, <<>>)


\* ---------------------------------------------------------------- the store
\* A loaded personal table (a DataFrame indexed by user_id) is a function from
\* the users that have rows to their item_id column in stored order; a loaded
\* default table is its item_id column.  None: not loaded.
NotLoaded == [loaded |-> FALSE, rows |-> <<>>]
Loaded(rows) == [loaded |-> TRUE, rows |-> rows]

\* The parquet files read by load: user 3 (first file) and user 2 (second file)
\* have no personal rows, user 2 of the first file has exactly one.
PersonalTables ==
  { (1 :> <<1, 2, 3>>) @@ (2 :> <<2>>),
    (1 :> <<2, 1>>) @@ (3 :> <<3, 1, 2>>) }

DefaultTables == { <<>>, <<3, 1, 2>> }

\* self._recs["personal"].loc[user_id] followed by recs["item_id"].to_list():
\* .loc raises KeyError for a label that is not in the index, answers a DataFrame
\* for a label with several rows and a Series (one row) for a label with exactly
\* one row; the Series' "item_id" is a scalar, which has no to_list().  None has
\* no .loc.
PersonalLookup(personal, user_id) ==
  IF ~personal.loaded THEN [exc |-> "AttributeError"]
  ELSE IF user_id \notin DOMAIN personal.rows THEN [exc |-> "KeyError"]
  ELSE IF Len(personal.rows[user_id]) = 1 THEN [exc |-> "AttributeError"]
  ELSE [exc |-> None, item_id |-> personal.rows[user_id]]

\* Fault: the increment lands on the other counter.
BumpOther(st, name) ==
  LET other == IF name = "request_personal_count"
               THEN "request_default_count" ELSE "request_personal_count"
  IN  [st EXCEPT ![other] = @ + 1]

\* self._stats[name] += 1
Bump(st, name) == [st EXCEPT ![name] = @ + 1]

\* Recommendations.get: the value returned (or the exception that leaves it), the
\* counters after the call, and the branch taken.
get(store, st, user_id, k) ==
  LET p == PersonalLookup(store.personal, user_id)
  IN  IF p.exc = None
      THEN [raised |-> FALSE, recs |-> SliceTo(p.item_id, k),
            stats |-> Bump(st, "request_personal_count"), path |-> "personal"]
      ELSE IF p.exc = "KeyError"
      THEN IF ~store.default.loaded
           \* an exception raised inside `except KeyError:` is not handled by
           \* the bare `except:` of the same try statement
           THEN [raised |-> TRUE, recs |-> <<>>, stats |-> st, path |-> "default"]
           ELSE [raised |-> FALSE, recs |-> SliceTo(store.default.rows, k),
                 stats |-> Bump(st, "request_default_count"), path |-> "default"]
      ELSE [raised |-> FALSE, recs |-> <<>>, stats |-> st, path |-> "except"]


\* ---------------------------------------------------------------- state
VARIABLES
  recs,          \* rec_store._recs
  stats,         \* rec_store._stats
  hits,          \* history: get calls that returned, by the branch they took
  pc,            \* where the running handler is ("idle": none is running)
  req,           \* the running request: endpoint, user_id, k
  recs_offline,  \* recommendations: recs_offline
  recs_online,   \* recommendations: recs_online
  events,        \* recommendations_online: the events still to iterate over
  items,         \* recommendations_online: items
  scores,        \* recommendations_online: scores
  ret,           \* what the handler gave its caller: a list, or an exception
  ids,           \* dedup_ids: the argument
  uniq           \* dedup_ids: the values returned for ids and for dedup_ids(ids)

vars == <<recs, stats, hits, pc, req, recs_offline, recs_online, events,
          items, scores, ret, ids, uniq>>

store   == <<recs, stats, hits>>
locals  == <<recs_offline, recs_online, events, items, scores>>
pure    == <<ids, uniq>>

NoReq      == [endpoint |-> None, user_id |-> 0, k |-> 0]
NoRet      == [kind |-> "none", recs |-> <<>>, at |-> None]
Returns(r) == [kind |-> "recs", recs |-> r, at |-> None]
Raises(at) == [kind |-> "raised", recs |-> <<>>, at |-> at]

Endpoints == {"recommendations_offline", "recommendations_online", "recommendations"}

\* The state after `rec_store = Recommendations()` (lines 15-20, 56).
Init ==
  /\ recs = [personal |-> NotLoaded, default |-> NotLoaded]
  /\ stats = [request_personal_count |-> 0, request_default_count |-> 0]
  /\ hits = [personal |-> 0, default |-> 0]
  /\ pc = "idle"
  /\ req = NoReq
  /\ recs_offline = <<>> /\ recs_online = <<>>
  /\ events = <<>> /\ items = <<>> /\ scores = <<>>
  /\ ret = NoRet
  /\ ids = <<>> /\ uniq = <<>>

\* ---------------------------------------------------------------- load
\* rec_store.load(type, path): the table read from the file becomes the entry.
\* lifespan loads each table once, "personal" first (lines 64-75); a load that
\* raises leaves the entry as it was.
load(type, rows) ==
  /\ pc = "idle"
  /\ ~recs[type].loaded
  /\ type = "default" => recs["personal"].loaded
  /\ recs' = [recs EXCEPT ![type] = Loaded(rows)]
  /\ UNCHANGED <<stats, hits, pc, req, locals, ret, pure>>

\* ---------------------------------------------------------------- requests
\* A request arrives and its handler starts.
Call(endpoint, user_id, k) ==
  /\ pc = "idle"
  /\ stats.request_personal_count + stats.request_default_count < MaxHits
  /\ req' = [endpoint |-> endpoint, user_id |-> user_id, k |-> k]
  /\ pc' = IF endpoint = "recommendations_online" THEN "events" ELSE "offline"
  /\ UNCHANGED <<store, locals, ret, pure>>

\* recommendations_offline (lines 96-98), as the endpoint or awaited at line 150.
recommendations_offline ==
  /\ pc = "offline"
  /\ LET r == get(recs, stats, req.user_id, req.k)
     IN  /\ stats' = r.stats
         /\ hits' = IF r.raised \/ r.path = "except" THEN hits
                    ELSE [hits EXCEPT ![r.path] = @ + 1]
         /\ IF r.raised
            THEN /\ ret' = Raises("get") /\ pc' = "done"
                 /\ UNCHANGED recs_offline
            ELSE IF req.endpoint = "recommendations_offline"
            THEN /\ ret' = Returns(r.recs) /\ pc' = "done"
                 /\ UNCHANGED recs_offline
            ELSE /\ recs_offline' = r.recs /\ pc' = "events"
                 /\ UNCHANGED ret
  /\ UNCHANGED <<recs, req, recs_online, events, items, scores, pure>>

\* What the events store may answer: a failure (requests.post or resp.json()
\* raises, or the body has no "events"), or up to EventsWindow item ids.
EventsResponses ==
  {[ok |-> FALSE, events |-> <<>>]}
    \cup {[ok |-> TRUE, events |-> e] : e \in SeqsUpTo(RecentItems, EventsWindow)}

\* What the features store may answer for one item: a failure, or two columns of
\* equal length.
SimilarResponses(room) ==
  {[ok |-> FALSE, item_id_2 |-> <<>>, score |-> <<>>]}
    \cup {[ok |-> TRUE,
           item_id_2 |-> [i \in DOMAIN p |-> p[i][1]],
           score |-> [i \in DOMAIN p |-> p[i][2]]] :
          p \in SeqsUpTo(Items \X Scores, room)}

\* recommendations_online, lines 117-125.
FetchEvents ==
  /\ pc = "events"
  /\ \E resp \in EventsResponses :
       IF resp.ok
       THEN /\ events' = resp.events /\ items' = <<>> /\ scores' = <<>>
            /\ pc' = "similar"
            /\ UNCHANGED ret
       ELSE /\ ret' = Raises("events") /\ pc' = "done"
            /\ UNCHANGED <<events, items, scores>>
  /\ UNCHANGED <<store, req, recs_offline, recs_online, pure>>

\* One iteration of `for item_id in events` (lines 126-132).
FetchSimilar ==
  /\ pc = "similar"
  /\ events # <<>>
  /\ \E resp \in SimilarResponses(MaxCandidates - Len(items)) :
       IF resp.ok
       THEN /\ items' = items \o resp.item_id_2
            /\ scores' = scores \o resp.score
            /\ events' = Tail(events)
            /\ UNCHANGED <<ret, pc>>
       ELSE /\ ret' = Raises("similar_items") /\ pc' = "done"
            /\ UNCHANGED <<events, items, scores>>
  /\ UNCHANGED <<store, req, recs_offline, recs_online, pure>>

\* Lines 135-142: the value recommendations_online returns.
online_recs(its, scs, k) ==
  LET combined == SortedByScoreDesc(Zip(its, scs))
      projected == [i \in DOMAIN combined |-> combined[i][1]]
  IN  SliceTo(dedup_ids(projected), k)

OnlineReturn ==
  /\ pc = "similar"
  /\ events = <<>>
  /\ LET r == online_recs(items, scores, req.k)
     IN  IF req.endpoint = "recommendations_online"
         THEN /\ ret' = Returns(r) /\ pc' = "done"
              /\ UNCHANGED <<recs_online, items, scores>>
         ELSE /\ recs_online' = r /\ pc' = "blend"
              /\ items' = <<>> /\ scores' = <<>>
              /\ UNCHANGED ret
  /\ UNCHANGED <<store, req, recs_offline, events, pure>>

\* Lines 156-168: the loop that alternates the two lists, then the two extends.
RECURSIVE interleave(_, _, _, _)
interleave(off, on, i, blended) ==
  IF i > Min(Len(off), Len(on)) THEN blended
  ELSE interleave(off, on, i + 1, Append(Append(blended, off[i]), on[i]))

\* Fault: the two lists are concatenated instead of alternated.
recs_blended_concat(off, on) == off \o on

recs_blended(off, on) ==
  LET min_length == Min(Len(off), Len(on))
      alternated == interleave(off, on, 1, <<>>)
      with_off   == IF Len(off) > min_length
                    THEN alternated \o SliceFrom(off, min_length) ELSE alternated
  IN  IF Len(on) > min_length
      THEN with_off \o SliceFrom(on, min_length) ELSE with_off

\* Fault: the final [:k] is missing.
blend_recs_untruncated(off, on, k) == dedup_ids(recs_blended(off, on))

\* Lines 171-176.
blend_recs(off, on, k) == SliceTo(dedup_ids(recs_blended(off, on)), k)

Blend ==
  /\ pc = "blend"
  /\ ret' = Returns(blend_recs(recs_offline, recs_online, req.k))
  /\ pc' = "done"
  /\ UNCHANGED <<store, req, locals, pure>>

\* The response (or the error) leaves the handler; its frame is gone.
Finish ==
  /\ pc = "done"
  /\ pc' = "idle" /\ req' = NoReq /\ ret' = NoRet
  /\ recs_offline' = <<>> /\ recs_online' = <<>>
  /\ events' = <<>> /\ items' = <<>> /\ scores' = <<>>
  /\ UNCHANGED <<store, pure>>

LoadPersonal == \E rows \in PersonalTables : load("personal", rows)
LoadDefault == \E rows \in DefaultTables : load("default", rows)
Request == \E e \in Endpoints, u \in Users, k \in Ks : Call(e, u, k)

Next ==
  \/ LoadPersonal
  \/ LoadDefault
  \/ Request
  \/ recommendations_offline
  \/ FetchEvents
  \/ FetchSimilar
  \/ OnlineReturn
  \/ Blend
  \/ Finish

Spec == Init /\ [][Next]_vars

\* ---------------------------------------------------------------- dedup_ids alone
\* dedup_ids applied to every list of up to MaxLen item ids, then to its own
\* result.
InitDedup ==
  /\ recs = [personal |-> NotLoaded, default |-> NotLoaded]
  /\ stats = [request_personal_count |-> 0, request_default_count |-> 0]
  /\ hits = [personal |-> 0, default |-> 0]
  /\ pc = "idle"
  /\ req = NoReq
  /\ recs_offline = <<>> /\ recs_online = <<>>
  /\ events = <<>> /\ items = <<>> /\ scores = <<>>
  /\ ret = NoRet
  /\ ids \in SeqsUpTo(Items, MaxLen)
  /\ uniq = <<>>

Dedup ==
  /\ Len(uniq) < 2
  /\ uniq' = Append(uniq, dedup_ids(IF uniq = <<>> THEN ids ELSE uniq[Len(uniq)]))
  /\ UNCHANGED <<store, pc, req, locals, ret, ids>>

NextDedup == Dedup

SpecDedup == InitDedup /\ [][NextDedup]_vars


\* ---------------------------------------------------------------- properties
\* The definitions below state the expected results on their own terms (by
\* index), not with the operators that model the code.

\* The positions of L that hold the first occurrence of their value.
FirstOccurrenceIdx(L) == {i \in DOMAIN L : \A j \in 1..(i - 1) : L[j] # L[i]}

\* The n-th smallest element of a set of integers.
NthOf(S, n) == CHOOSE i \in S : Cardinality({j \in S : j <= i}) = n

\* L without the repeats of a value it already showed.
FirstOccurrences(L) ==
  LET idx == FirstOccurrenceIdx(L)
  IN  [n \in 1..Cardinality(idx) |-> L[NthOf(idx, n)]]

\* The first k elements of s, for k >= 0.
Prefix(s, k) == [i \in 1..Min(k, Len(s)) |-> s[i]]

\* offline[i], online[i] for each i up to m = min of the lengths, then the rest
\* of the longer list.
Blended(off, on) ==
  LET m == Min(Len(off), Len(on))
  IN  [j \in 1..(Len(off) + Len(on)) |->
         IF j <= 2 * m
         THEN IF j % 2 = 1 THEN off[(j + 1) \div 2] ELSE on[j \div 2]
         ELSE IF Len(off) > m THEN off[j - m] ELSE on[j - m]]

\* The item ids of the pairs (its[i], scs[i]) by score descending, pairs of equal
\* score in the order of their positions.
RankedIds(its, scs) ==
  LET n == Len(its)
      rank(i) == 1 + Cardinality({j \in 1..n :
                        scs[j] > scs[i] \/ (scs[j] = scs[i] /\ j < i)})
  IN  [r \in 1..n |-> its[CHOOSE i \in 1..n : rank(i) = r]]

IsPrefixOf(a, b) == Len(a) <= Len(b) /\ SubSeq(b, 1, Len(a)) = a

Done(endpoint) == pc = "done" /\ req.endpoint = endpoint

\* C1: for k >= 0, recommendations returns dedup(B)[:k], B being offline[i] then
\* online[i] for each i below the shorter length, followed by the rest of the
\* longer list.
C1_BlendIsInterleaveDedupTruncate ==
  (Done("recommendations") /\ ret.kind = "recs" /\ req.k >= 0)
    => ret.recs = Prefix(FirstOccurrences(Blended(recs_offline, recs_online)), req.k)

\* offline = [2, 1], online = [1, 3] (a duplicate across the sources) gives [2, 1, 3].
C1_Witness ==
  /\ Done("recommendations")
  /\ recs_offline = <<2, 1>> /\ recs_online = <<1, 3>>
  /\ ret = Returns(<<2, 1, 3>>)

\* C2: for k >= 0 the list recommendations returns has at most k elements.
C2_AtMostK ==
  (Done("recommendations") /\ ret.kind = "recs" /\ req.k >= 0)
    => Len(ret.recs) <= req.k

\* The two sources hold more than k = 2 distinct items and two are returned.
C2_Witness ==
  /\ Done("recommendations") /\ req.k = 2
  /\ Cardinality({recs_offline[i] : i \in DOMAIN recs_offline}
                   \cup {recs_online[i] : i \in DOMAIN recs_online}) > 2
  /\ Len(ret.recs) = 2

\* The list the offline lookup of the running request produced.
OfflineResult ==
  IF req.endpoint = "recommendations_offline" THEN ret.recs ELSE recs_offline

\* C3: with both tables loaded, get answers P[:k] and counts one personal hit for
\* a user with a personal entry P, and answers DefaultList[:k] and counts one
\* default hit for a user without; the other counter stays.
C3_OfflineLookup ==
  [][(pc = "offline" /\ recs.personal.loaded /\ recs.default.loaded)
       => IF req.user_id \in DOMAIN recs.personal.rows
          THEN /\ OfflineResult' = SliceTo(recs.personal.rows[req.user_id], req.k)
               /\ stats' = [stats EXCEPT !.request_personal_count = @ + 1]
          ELSE /\ OfflineResult' = SliceTo(recs.default.rows, req.k)
               /\ stats' = [stats EXCEPT !.request_default_count = @ + 1]]_vars

\* C4: get is fail-open: for a user without a personal entry, with the default
\* list missing or empty, it returns the empty list and does not raise.
C4_FailOpen ==
  (/\ Done("recommendations_offline")
   /\ ~(recs.personal.loaded /\ req.user_id \in DOMAIN recs.personal.rows)
   /\ (~recs.default.loaded \/ recs.default.rows = <<>>))
    => ret = Returns(<<>>)

\* C5: a request with k < 0 is rejected: no endpoint answers it with a list.
C5_NegativeKRejected ==
  (pc = "done" /\ req.k < 0) => ret.kind = "raised"

\* C6: a failed similar_items lookup for one seed item does not end the request:
\* the other seed items are still processed.
C6_SeedFailureIsLocal ==
  (Done("recommendations_online") /\ ret.kind = "raised") => ret.at # "similar_items"

\* C7: for k >= 0 recommendations always ends by returning a list, whatever the
\* lookups did.
C7_NeverPropagates ==
  (Done("recommendations") /\ req.k >= 0) => ret.kind = "recs"

C9_OnlineRanking ==
  /\ []((Done("recommendations_online") /\ ret.kind = "recs")
          => ret.recs = SliceTo(FirstOccurrences(RankedIds(items, scores)), req.k))
  /\ [][(pc = "similar" /\ pc' = "similar")
          => /\ events' = Tail(events)
             /\ IsPrefixOf(items, items') /\ IsPrefixOf(scores, scores')]_vars

\* Items 2 then 1 were accumulated with the same score and are returned in
\* that order.
C9_Witness ==
  /\ Done("recommendations_online")
  /\ items = <<2, 1>> /\ scores = <<1, 1>>
  /\ ret = Returns(<<2, 1>>)

\* C10: dedup_ids(L) is L restricted to the first occurrence of each id, so it
\* has no duplicates, is no longer than L, and dedup_ids leaves it unchanged.
C10_DedupFirstOccurrences ==
  /\ Len(uniq) >= 1 =>
       /\ uniq[1] = FirstOccurrences(ids)
       /\ \A i, j \in DOMAIN uniq[1] : uniq[1][i] = uniq[1][j] => i = j
       /\ {uniq[1][i] : i \in DOMAIN uniq[1]} = {ids[i] : i \in DOMAIN ids}
       /\ Len(uniq[1]) <= Len(ids)
  /\ Len(uniq) = 2 => uniq[2] = uniq[1]

\* A list with a repeat between two other ids, deduplicated twice.
C10_Witness ==
  /\ ids = <<2, 1, 2, 3>>
  /\ uniq = << <<2, 1, 3>>, <<2, 1, 3>> >>

====
